---- MODULE Spec2Model ----
(***************************************************************************)
(* Model of the pharmacist-session booking calendar (src/app.py,           *)
(* src/core.py): the schedule worksheet (Sheet1) as a sequence of rows,    *)
(* the 'Update Availability' handler of show_admin_panel, the booking      *)
(* dialog with update_booking, and cancel_booking.                         *)
(*                                                                         *)
(* Every Streamlit session executes its script run to completion; the     *)
(* worksheet is shared between sessions.  A booking dialog keeps the slot  *)
(* dict it was opened with (st.dialog re-runs show_booking_dialog with its *)
(* original argument), and a Cancel button passes the row of the frame     *)
(* read at the top of its script run, so both handlers act on a slot that  *)
(* was read earlier than the moment they look up the worksheet.            *)
(***************************************************************************)
EXTENDS Integers, Sequences, FiniteSets, TLC

\* ------------------------------------------------------------------ bounds
\* Largest number of rows the worksheet holds in the model.
MaxRows == 2
\* Largest number of selectboxes an admin sets away from the shown default
\* in one submission of the availability form.
MaxEdits == 2
\* Number of browser sessions.
NumSessions == 2
\* Latest second of the day (counted from midnight) at which a script run
\* of the admin panel starts.
MaxTod == 1
\* Largest value of the 'Number of weeks to show' slider used.
MaxWeeks == 2
\* Offsets, in days from today, of the two dates whose slots are edited.
NearDay == 1
FarDay == 8
\* Offset, in days from today, of a date that falls on a Saturday.
WeekendDay == 5
\* Largest number of worksheet or mail calls that raise in one behaviour.
MaxFaults == 1
\* Weekday of today (0 = Monday).
TodayWeekday == 0

\* ------------------------------------------------------- program constants
SecondsPerDay == 86400
NumCols == 2
DaysPerWeek == 7

Sessions == 1..NumSessions
Tods == 0..MaxTod
Weeks == 1..MaxWeeks

\* Sheet3 (roster of pharmacists) and Sheet2 (surgeries with their e-mail).
AllPharmacists == {"A", "B"}
Surgeries == {"S1", "S2"}
SurgeryEmail(s) == IF s = "S1" THEN "e1" ELSE "e2"
PharmacistEmail(p) == IF p = "A" THEN "a@" ELSE "b@"

\* datetime.weekday() of the date d days after today.
Weekday(d) == (TodayWeekday + d) % DaysPerWeek

\* A calendar without weekends.
IsWeekend_Never(d) == FALSE

IsWeekend(d) == Weekday(d) >= 5

\* dates_to_show: today .. today + num_weeks weeks, both included.
DatesToShow(num_weeks) == 0..(DaysPerWeek * num_weeks)

\* Dates on which the model holds or edits slots, and the selectboxes
\* (date, column i, shift) the admin changes there.
Days == {NearDay, FarDay, WeekendDay}
AllKeys == Days \X (0..(NumCols - 1)) \X {"am", "pm"}
Keys == {k \in AllKeys : k[1] = NearDay \/ (k[2] = 0 /\ k[3] = "am")} \ {<<NearDay, 1, "pm">>}

\* f"{int(date.timestamp())}-{shift_type}-{i}": the three fields are kept
\* apart by the format (digits, '-', a word without digits, '-', digits),
\* so the string is represented by the triple it is printed from.  date is
\* today's datetime (with its time of day) plus whole days.
\* A code without the column index.
UniqueCode_NoColumn(d, tod, shift, i) == <<d * SecondsPerDay + tod, shift, 0>>

UniqueCode(d, tod, shift, i) == <<d * SecondsPerDay + tod, shift, i>>

NoCode == <<>>

VARIABLES
    sheet,      \* Sheet1 below its header row: sequence of row records
    prov,       \* prov[n]: the row number sheet[n] had before the last
                \* handler ran, 0 for a row that handler appended
    pend,       \* per session: the slot dict a dialog or Cancel button holds
    roster,     \* names in Sheet3
    faults,     \* number of calls that have raised so far
    last        \* what the last handler did: writes, mails, messages

vars == <<sheet, prov, pend, roster, faults, last>>

NoPend == [kind |-> "none"]

\* row.to_dict(), restricted to the entries update_booking and
\* cancel_booking read from it.
SlotDict(row) ==
    [unique_code |-> row.unique_code, pharmacist_name |-> row.pharmacist_name,
     Date |-> row.Date, am_pm |-> row.am_pm]

\* No key: the loop has met no call that raised.
NoKey == <<>>

NoLast ==
    [op |-> "init", cell |-> 0, fault |-> "none", surgery |-> "", email |-> "",
     ok |-> FALSE, err |-> FALSE, warned |-> FALSE, writes |-> 0, mails |-> {},
     kinds |-> {}, rerun |-> 0,
     asked |-> {}, weeks |-> 0, muts |-> <<>>, fkey |-> NoKey, wkey |-> NoKey,
     password |-> "", unbook |-> FALSE, view |-> "", offers |-> {}]

\* ------------------------------------------------------------ worksheet
\* A row of Sheet1 under EXPECTED_HEADERS.
\* A new row that is written as booked.
NewRow_Booked(code, d, shift, name, i) ==
    [unique_code |-> code, Date |-> d, am_pm |-> shift, booked |-> "TRUE",
     surgery |-> "", email |-> "", pharmacist_name |-> name, slot_index |-> i]

NewRow(code, d, shift, name, i) ==
    [unique_code |-> code, Date |-> d, am_pm |-> shift, booked |-> "FALSE",
     surgery |-> "", email |-> "", pharmacist_name |-> name, slot_index |-> i]

\* sheet.find(unique_code): the first row, from the top, holding the value;
\* 0 when no row holds it.  The other columns hold dates, names, flags and
\* addresses, none of which has the form of a unique_code.
Find(sh, code) ==
    LET hits == {n \in 1..Len(sh) : sh[n].unique_code = code}
    IN IF hits = {} THEN 0 ELSE CHOOSE n \in hits : \A m \in hits : n <= m

\* A deletion that removes the last row whatever n is.
DeleteAt_Last(sq, n) == SubSeq(sq, 1, Len(sq) - 1)

\* sheet.delete_rows(n)
DeleteAt(sq, n) == [j \in 1..(Len(sq) - 1) |-> IF j < n THEN sq[j] ELSE sq[j + 1]]

\* The row numbers of a worksheet no handler has touched yet.
RowNumbers(sh) == [j \in 1..Len(sh) |-> j]

\* str(row.get('booked', 'FALSE')).upper() == "TRUE"
IsBooked(row) == row.booked = "TRUE"

RowKey(row) == <<row.Date, row.slot_index, row.am_pm>>

\* ------------------------------------------- show_admin_panel: the snapshot
NoInfo == [present |-> FALSE, booked |-> FALSE, pharmacist_name |-> "None",
           unique_code |-> NoCode]

\* current_availability[key] after the loop over df.iterrows(): a later row
\* with the same key overwrites an earlier one.
SlotInfo(df, k) ==
    LET hits == {n \in 1..Len(df) : RowKey(df[n]) = k}
    IN IF hits = {} THEN NoInfo
       ELSE LET n == CHOOSE x \in hits : \A m \in hits : m <= x
            IN [present |-> TRUE, booked |-> IsBooked(df[n]),
                pharmacist_name |-> df[n].pharmacist_name,
                unique_code |-> df[n].unique_code]

CurrentAvailability(df) == [k \in Keys |-> SlotInfo(df, k)]

\* pharmacist_names = ["None"] + sorted(Name column of Sheet3)
PharmacistNames(ros) == {"None"} \cup ros

\* current_options of one selectbox
CurrentOptions(info, ros) ==
    IF info.booked /\ info.pharmacist_name \notin PharmacistNames(ros)
    THEN PharmacistNames(ros) \cup {info.pharmacist_name}
    ELSE PharmacistNames(ros)

\* The value the selectbox shows before the admin touches it.
DefaultPharmacist(info, ros) ==
    IF info.pharmacist_name \in CurrentOptions(info, ros)
    THEN info.pharmacist_name ELSE "None"

\* ------------------------------- show_admin_panel: 'Update Availability'
\* The weekday keys of the displayed dates, in the order of the three nested
\* loops: date, then column i, then 'am' before 'pm'.  Dates outside Days
\* hold no row and no changed selectbox, so their iterations do nothing,
\* and so do those of the keys outside Keys.
RECURSIVE DaySeq(_)
DaySeq(S) ==
    IF S = {} THEN <<>>
    ELSE LET d == CHOOSE x \in S : \A y \in S : x <= y
         IN <<d>> \o DaySeq(S \ {d})

\* The loops with 'pm' before 'am'.
RECURSIVE KeysOfDays_PmFirst(_)
KeysOfDays_PmFirst(ds) ==
    IF ds = <<>> THEN <<>>
    ELSE LET d == Head(ds)
         IN (IF IsWeekend(d) THEN <<>>
             ELSE <<<<d, 0, "pm">>, <<d, 0, "am">>, <<d, 1, "pm">>, <<d, 1, "am">>>>)
            \o KeysOfDays_PmFirst(Tail(ds))

RECURSIVE KeysOfDays(_)
KeysOfDays(ds) ==
    IF ds = <<>> THEN <<>>
    ELSE LET d == Head(ds)
         IN (IF IsWeekend(d) THEN <<>>
             ELSE <<<<d, 0, "am">>, <<d, 0, "pm">>, <<d, 1, "am">>, <<d, 1, "pm">>>>)
            \o KeysOfDays(Tail(ds))

\* A loop over every date that holds a row, displayed or not.
LoopKeys_AllDays(num_weeks) ==
    SelectSeq(KeysOfDays(DaySeq(Days)), LAMBDA k : k \in Keys)

LoopKeys(num_weeks) ==
    SelectSeq(KeysOfDays(DaySeq(Days \cap DatesToShow(num_weeks))),
              LAMBDA k : k \in Keys)

\* The state the loop carries: the worksheet, the calls made so far, and
\* whether a call raised out of the loop (the outer 'except Exception').
StartRun(sh) ==
    [sheet |-> sh, prov |-> RowNumbers(sh), finds |-> 0, writes |-> 0,
     aborted |-> FALSE, warned |-> FALSE, muts |-> <<>>,
     fkey |-> NoKey, wkey |-> NoKey]

\* One worksheet write of the loop; the call numbered wfail raises.
Raises(st, wfail) == st.writes + 1 = wfail

DeleteRows(st, n, k, wfail) ==
    IF Raises(st, wfail) THEN [st EXCEPT !.aborted = TRUE, !.wkey = k]
    ELSE [st EXCEPT !.sheet = DeleteAt(st.sheet, n),
                    !.prov = DeleteAt(st.prov, n),
                    !.writes = @ + 1,
                    !.muts = Append(@, [op |-> "delete", key |-> k,
                                        code |-> st.sheet[n].unique_code,
                                        row |-> n, name |-> "None"])]

AppendRow(st, row, k, wfail) ==
    IF Raises(st, wfail) THEN [st EXCEPT !.aborted = TRUE, !.wkey = k]
    ELSE [st EXCEPT !.sheet = Append(st.sheet, row),
                    !.prov = Append(st.prov, 0),
                    !.writes = @ + 1,
                    !.muts = Append(@, [op |-> "append", key |-> k,
                                        code |-> row.unique_code,
                                        row |-> Len(st.sheet) + 1,
                                        name |-> row.pharmacist_name])]

\* An update that also rewrites the row's unique_code.
UpdateAssignee_Recodes(st, n, name, k, wfail) ==
    IF Raises(st, wfail) THEN [st EXCEPT !.aborted = TRUE, !.wkey = k]
    ELSE [st EXCEPT !.sheet[n].pharmacist_name = name,
                    !.sheet[n].unique_code = UniqueCode(k[1], MaxTod + 1, k[3], k[2]),
                    !.writes = @ + 1,
                    !.muts = Append(@, [op |-> "update", key |-> k,
                                        code |-> st.sheet[n].unique_code,
                                        row |-> n, name |-> name])]

UpdateAssignee(st, n, name, k, wfail) ==
    IF Raises(st, wfail) THEN [st EXCEPT !.aborted = TRUE, !.wkey = k]
    ELSE [st EXCEPT !.sheet[n].pharmacist_name = name,
                    !.writes = @ + 1,
                    !.muts = Append(@, [op |-> "update", key |-> k,
                                        code |-> st.sheet[n].unique_code,
                                        row |-> n, name |-> name])]

\* unique_code = slot_info.get('unique_code') or f"..."
CodeFor(info, k, tod) ==
    IF info.unique_code # NoCode THEN info.unique_code
    ELSE UniqueCode(k[1], tod, k[3], k[2])

\* A loop body that warns about a row it cannot find and appends nothing.
LoopBody_NoFallback(st, k, current_availability, D, tod, ffail, wfail) ==
    LET slot_info == current_availability[k]
        original_pharmacist == slot_info.pharmacist_name
        new_pharmacist == D[k]
        unique_code == CodeFor(slot_info, k, tod)
        looksUp == original_pharmacist # "None" /\ unique_code # NoCode
        findRaises == looksUp /\ st.finds + 1 = ffail
        cell_to_modify == IF looksUp /\ ~findRaises
                          THEN Find(st.sheet, unique_code) ELSE 0
        st1 == IF looksUp
               THEN [st EXCEPT !.finds = @ + 1,
                               !.fkey = IF findRaises THEN k ELSE @]
               ELSE st
        new_row == NewRow(unique_code, k[1], k[3], new_pharmacist, k[2])
    IN IF st.aborted \/ slot_info.booked \/ new_pharmacist = original_pharmacist
       THEN st
       ELSE IF new_pharmacist = "None"
       THEN (IF cell_to_modify # 0
             THEN DeleteRows(st1, cell_to_modify, k, wfail) ELSE st1)
       ELSE IF original_pharmacist = "None"
       THEN AppendRow(st1, new_row, k, wfail)
       ELSE IF cell_to_modify # 0
       THEN UpdateAssignee(st1, cell_to_modify, new_pharmacist, k, wfail)
       ELSE [st1 EXCEPT !.warned = TRUE]

\* The body of the innermost loop for key k.  cur is current_availability,
\* D the session_state values of the selectboxes, tod the time of day of
\* this script run; the sheet.find call numbered ffail raises APIError.
\* slot_info is current_availability.get(lookup_key, {}).
LoopBody(st, k, current_availability, D, tod, ffail, wfail) ==
    LET slot_info == current_availability[k]
        original_pharmacist == slot_info.pharmacist_name
        new_pharmacist == D[k]
        unique_code == CodeFor(slot_info, k, tod)
        looksUp == original_pharmacist # "None" /\ unique_code # NoCode
        findRaises == looksUp /\ st.finds + 1 = ffail
        cell_to_modify == IF looksUp /\ ~findRaises
                          THEN Find(st.sheet, unique_code) ELSE 0
        st1 == IF looksUp
               THEN [st EXCEPT !.finds = @ + 1,
                               !.fkey = IF findRaises THEN k ELSE @]
               ELSE st
        new_row == NewRow(unique_code, k[1], k[3], new_pharmacist, k[2])
    IN IF st.aborted \/ slot_info.booked \/ new_pharmacist = original_pharmacist
       THEN st
       ELSE IF new_pharmacist = "None"
       THEN (IF cell_to_modify # 0
             THEN DeleteRows(st1, cell_to_modify, k, wfail) ELSE st1)
       ELSE IF original_pharmacist = "None"
       THEN AppendRow(st1, new_row, k, wfail)
       ELSE IF cell_to_modify # 0
       THEN UpdateAssignee(st1, cell_to_modify, new_pharmacist, k, wfail)
       ELSE AppendRow([st1 EXCEPT !.warned = TRUE], new_row, k, wfail)

RECURSIVE RunLoop(_, _, _, _, _, _, _)
RunLoop(st, ks, cur, D, tod, ffail, wfail) ==
    IF ks = <<>> THEN st
    ELSE CHOOSE r \in {RunLoop(x, Tail(ks), cur, D, tod, ffail, wfail) :
                          x \in {LoopBody(st, Head(ks), cur, D, tod, ffail, wfail)}} : TRUE

\* The handler from the snapshot of its script run to the end of the loop.
Reconcile(sh, cur, D, num_weeks, tod, ffail, wfail) ==
    RunLoop(StartRun(sh), LoopKeys(num_weeks), cur, D, tod, ffail, wfail)

\* What the admin can submit: for every selectbox one of its options.  The
\* selectboxes of the keys in ks are set to names of the set names, at most n
\* of them away from the shown default; the others are left at the default.
\* A weekend date has no selectbox: session_state.get(slot_key, 'None')
\* gives 'None' for its keys.
Desireds(df, ros, ks, names, n) ==
    LET cur == CurrentAvailability(df)
        dflt == [k \in Keys |-> IF IsWeekend(k[1]) THEN "None"
                                ELSE DefaultPharmacist(cur[k], ros)]
        edits == {E \in SUBSET {k \in ks : ~IsWeekend(k[1])} : Cardinality(E) <= n}
    IN UNION {{[k \in Keys |-> IF k \in E THEN v[k] ELSE dflt[k]] :
                 v \in {w \in [E -> names] :
                          \A k \in E : /\ w[k] \in CurrentOptions(cur[k], ros)
                                       /\ w[k] # dflt[k]}} :
              E \in edits}

\* --------------------------------------------------------- update_booking
\* Where a call of update_booking or cancel_booking raises: nowhere, in
\* sheet.find, in the first, second or third update_cell, or (update_booking)
\* in generate_ics_file.
Faults == {"none", "find", "write1", "write2", "write3", "ics"}

\* Where the notification of a call fails once the three cells are
\* written: in generate_ics_file (update_booking), or in
\* resend.Emails.send, which send_resend_email catches and reports.
NotifyFaults == {"ics", "mail"}

\* The three update_cell calls of update_booking, up to the one that raises.
BookCells(row, surgery, email, fault) ==
    LET r1 == IF fault = "write1" THEN row ELSE [row EXCEPT !.booked = "TRUE"]
        r2 == IF fault \in {"write1", "write2"} THEN r1 ELSE [r1 EXCEPT !.surgery = surgery]
        r3 == IF fault \in {"write1", "write2", "write3"} THEN r2 ELSE [r2 EXCEPT !.email = email]
    IN r3

\* A cancellation that also empties the pharmacist_name cell.
CancelCells_ClearsPharmacist(row, fault) ==
    [row EXCEPT !.booked = "FALSE", !.surgery = "", !.email = "",
                !.pharmacist_name = ""]

\* A cancellation that leaves the email cell as it is.
CancelCells_KeepsEmail(row, fault) ==
    LET r1 == IF fault = "write1" THEN row ELSE [row EXCEPT !.booked = "FALSE"]
        r2 == IF fault \in {"write1", "write2"} THEN r1 ELSE [r1 EXCEPT !.surgery = ""]
    IN r2

\* The three update_cell calls of cancel_booking, up to the one that raises.
CancelCells(row, fault) ==
    LET r1 == IF fault = "write1" THEN row ELSE [row EXCEPT !.booked = "FALSE"]
        r2 == IF fault \in {"write1", "write2"} THEN r1 ELSE [r1 EXCEPT !.surgery = ""]
        r3 == IF fault \in {"write1", "write2", "write3"} THEN r2 ELSE [r2 EXCEPT !.email = ""]
    IN r3

WritesDone(fault) ==
    CASE fault = "write1" -> 0
      [] fault = "write2" -> 1
      [] fault = "write3" -> 2
      [] OTHER -> 3

\* An update_booking that puts the row back when the notification fails.
UpdateBooking_RevertsOnError(sh, ros, slot, surgery, email, fault) ==
    LET cell == Find(sh, slot.unique_code)
        failed == fault \in NotifyFaults \/ slot.pharmacist_name \notin ros
    IN IF fault = "find" \/ cell = 0 THEN
            [sheet |-> sh, err |-> TRUE, writes |-> 0, mails |-> {}]
       ELSE [sheet |-> IF failed THEN sh
                       ELSE [sh EXCEPT ![cell] = BookCells(sh[cell], surgery, email, fault)],
             err |-> failed \/ fault \in {"write1", "write2", "write3"},
             writes |-> WritesDone(fault),
             mails |-> {}]

\* update_booking(slot, surgery, email): the worksheet after it and what it
\* reports.  It returns normally in every case (it catches Exception).
\* mails are the addresses send_resend_email is called with, whether or not
\* the send goes through.
UpdateBooking(sh, ros, slot, surgery, email, fault) ==
    LET cell == Find(sh, slot.unique_code)
        wrote == fault \notin {"write1", "write2", "write3"}
        known == slot.pharmacist_name \in ros
    IN IF fault = "find" THEN
            [sheet |-> sh, err |-> TRUE, writes |-> 0, mails |-> {}]
       ELSE IF cell = 0 THEN
            [sheet |-> sh, err |-> TRUE, writes |-> 0, mails |-> {}]
       ELSE [sheet |-> [sh EXCEPT ![cell] = BookCells(sh[cell], surgery, email, fault)],
             err |-> ~wrote \/ ~known \/ fault \in NotifyFaults,
             writes |-> WritesDone(fault),
             mails |-> IF wrote /\ known /\ fault # "ics"
                       THEN {email, PharmacistEmail(slot.pharmacist_name)}
                       ELSE {}]

\* --------------------------------------------------------- cancel_booking
CancelBooking(sh, ros, slot, fault) ==
    LET cell == Find(sh, slot.unique_code)
        wrote == fault \notin {"write1", "write2", "write3"}
        surgery_email == sh[cell].email
        pharmacist_name == sh[cell].pharmacist_name
        known == pharmacist_name \in ros
    IN IF fault = "find" THEN
            [sheet |-> sh, ok |-> FALSE, err |-> TRUE, writes |-> 0, mails |-> {}]
       ELSE IF cell = 0 THEN
            [sheet |-> sh, ok |-> FALSE, err |-> TRUE, writes |-> 0, mails |-> {}]
       ELSE [sheet |-> [sh EXCEPT ![cell] = CancelCells(sh[cell], fault)],
             ok |-> wrote,
             err |-> ~wrote \/ ~known \/ fault = "mail",
             writes |-> WritesDone(fault),
             mails |-> IF ~wrote THEN {}
                       ELSE (IF surgery_email # "" THEN {surgery_email} ELSE {})
                            \cup (IF known THEN {PharmacistEmail(pharmacist_name)} ELSE {})]

\* ---------------------------------------------------------------- actions
Report(op, cell, ok, err, writes, mails) ==
    [NoLast EXCEPT !.op = op, !.cell = cell, !.ok = ok,
                   !.err = err, !.writes = writes, !.mails = mails]

\* What a call of update_booking or cancel_booking leaves on the page.
CallReport(op, cell, fault, surgery, email, ok, r) ==
    [Report(op, IF fault = "find" THEN 0 ELSE cell, ok, r.err, r.writes, r.mails)
        EXCEPT !.fault = fault, !.surgery = surgery, !.email = email]

\* A dialog that checks the surgery name only.
DialogRejects_SurgeryOnly(option, current_surgery, current_email) ==
    current_surgery = ""

\* show_booking_dialog: the submissions that never reach update_booking.
DialogRejects(option, current_surgery, current_email) ==
    \/ current_surgery = ""
    \/ current_email = ""
    \/ option = "Add New Surgery"

\* display_calendar: df[df['Date'] >= datetime.today()], weekends skipped.
Upcoming(row, tod) == row.Date * SecondsPerDay >= tod
Offered(row, tod) == Upcoming(row, tod) /\ ~IsWeekend(row.Date)

\* display_calendar, unbook_mode off: the button of an unbooked slot opens
\* the booking dialog on row.to_dict().
OpenDialog(s, n) ==
    /\ pend[s] = NoPend
    /\ \E tod \in Tods : Offered(sheet[n], tod)
    /\ ~IsBooked(sheet[n])
    /\ pend' = [pend EXCEPT ![s] = [kind |-> "book", slot |-> SlotDict(sheet[n])]]
    /\ last' = Report("render", 0, FALSE, FALSE, 0, {})
    /\ prov' = RowNumbers(sheet)
    /\ UNCHANGED <<sheet, roster, faults>>

\* show_booking_dialog: the dialog's Cancel button.
CloseDialog(s) ==
    /\ pend[s].kind = "book"
    /\ pend' = [pend EXCEPT ![s] = NoPend]
    /\ last' = Report("render", 0, FALSE, FALSE, 0, {})
    /\ prov' = RowNumbers(sheet)
    /\ UNCHANGED <<sheet, roster, faults>>

\* show_booking_dialog: 'Submit Booking'.
SubmitBooking(s, option, manual_surgery, manual_email, fault) ==
    /\ pend[s].kind = "book"
    /\ option # "Add New Surgery" => manual_surgery = "" /\ manual_email = ""
    /\ fault # "none" => faults < MaxFaults
    /\ faults' = IF fault = "none" THEN faults ELSE faults + 1
    /\ LET slot == pend[s].slot
           current_surgery == IF option = "Add New Surgery" THEN manual_surgery ELSE option
           current_email == IF option = "Add New Surgery" THEN manual_email
                            ELSE SurgeryEmail(option)
           r == UpdateBooking(sheet, roster, slot, current_surgery, current_email, fault)
       IN IF DialogRejects(option, current_surgery, current_email)
          THEN /\ fault = "none"
               /\ last' = [Report("book_rejected", 0, FALSE, TRUE, 0, {})
                              EXCEPT !.surgery = current_surgery,
                                     !.email = current_email]
               /\ UNCHANGED <<sheet, pend>>
          ELSE /\ sheet' = r.sheet
               /\ last' = CallReport("book", Find(sheet, slot.unique_code), fault,
                                     current_surgery, current_email, TRUE, r)
               /\ pend' = [pend EXCEPT ![s] = NoPend]
    /\ prov' = RowNumbers(sheet)
    /\ UNCHANGED roster

\* display_calendar, unbook_mode on: the '(Cancel)' button of a booked slot.
ClickCancel(s, n) ==
    /\ pend[s] = NoPend
    /\ \E tod \in Tods : Offered(sheet[n], tod)
    /\ IsBooked(sheet[n])
    /\ pend' = [pend EXCEPT ![s] = [kind |-> "cancel", slot |-> SlotDict(sheet[n])]]
    /\ last' = Report("render", 0, FALSE, FALSE, 0, {})
    /\ prov' = RowNumbers(sheet)
    /\ UNCHANGED <<sheet, roster, faults>>

\* cancel_booking(row.to_dict())
RunCancel(s, fault) ==
    /\ pend[s].kind = "cancel"
    /\ fault # "none" => faults < MaxFaults
    /\ faults' = IF fault = "none" THEN faults ELSE faults + 1
    /\ LET slot == pend[s].slot
           r == CancelBooking(sheet, roster, slot, fault)
       IN /\ sheet' = r.sheet
          /\ last' = CallReport("cancel", Find(sheet, slot.unique_code), fault,
                                "", "", r.ok, r)
    /\ pend' = [pend EXCEPT ![s] = NoPend]
    /\ prov' = RowNumbers(sheet)
    /\ UNCHANGED roster

\* The changes the submission asks for: the displayed keys that are not
\* booked in the snapshot and whose selectbox differs from the snapshot's
\* pharmacist, each with the selected value.
Asked(cur, D, num_weeks) ==
    {<<k, D[k]>> : k \in {x \in Keys : /\ x[1] \in DatesToShow(num_weeks)
                                        /\ ~IsWeekend(x[1])
                                        /\ ~cur[x].booked
                                        /\ D[x] # cur[x].pharmacist_name}}

\* show_admin_panel: the form's 'Update Availability' button.  The script
\* run reads df, renders the form and runs the loop.
UpdateAvailability(num_weeks, tod, D, ffail, wfail) ==
    /\ ffail = 0 \/ wfail = 0
    /\ ffail + wfail > 0 => faults < MaxFaults
    /\ faults' = IF ffail + wfail > 0 THEN faults + 1 ELSE faults
    /\ \E cur \in {CurrentAvailability(sheet)} :
       \E st \in {Reconcile(sheet, cur, D, num_weeks, tod, ffail, wfail)} :
          /\ Len(st.sheet) <= MaxRows
          /\ ffail <= st.finds
          /\ wfail <= st.writes + (IF st.aborted THEN 1 ELSE 0)
          /\ sheet' = st.sheet
          /\ prov' = st.prov
          /\ \E cur2 \in {CurrentAvailability(st.sheet)} :
             \E again \in {IF st.aborted THEN StartRun(st.sheet)
                            ELSE Reconcile(st.sheet, cur2, D, num_weeks, tod, 0, 0)} :
               last' = [NoLast EXCEPT !.op = "reconcile", !.ok = ~st.aborted,
                                      !.err = st.aborted, !.warned = st.warned,
                                      !.writes = st.writes,
                                      !.kinds = {st.muts[j].op : j \in 1..Len(st.muts)},
                                      !.rerun = Len(again.muts),
                                      !.asked = Asked(cur, D, num_weeks),
                                      !.weeks = num_weeks,
                                      !.muts = st.muts,
                                      !.fkey = st.fkey, !.wkey = st.wkey]
    /\ UNCHANGED <<pend, roster>>

\* delete_pharmacist_data / add_pharmacist_data (Manage Pharmacists tab).
DeletePharmacist(p) ==
    /\ p \in roster
    /\ roster' = roster \ {p}
    /\ last' = Report("roster", 0, TRUE, FALSE, 0, {})
    /\ prov' = RowNumbers(sheet)
    /\ UNCHANGED <<sheet, pend, faults>>

AddPharmacist(p) ==
    /\ p \notin roster
    /\ roster' = roster \cup {p}
    /\ last' = Report("roster", 0, TRUE, FALSE, 0, {})
    /\ prov' = RowNumbers(sheet)
    /\ UNCHANGED <<sheet, pend, faults>>

Init ==
    /\ sheet = <<>>
    /\ prov = <<>>
    /\ pend = [s \in Sessions |-> NoPend]
    /\ roster = AllPharmacists
    /\ faults = 0
    /\ last = NoLast

\* The dialog opened on row n and submitted, or row n's Cancel button
\* pressed and served, with no other session acting in between.
BookNow(n, option, fault) ==
    /\ \E tod \in Tods : Offered(sheet[n], tod)
    /\ ~IsBooked(sheet[n])
    /\ fault # "none" => faults < MaxFaults
    /\ faults' = IF fault = "none" THEN faults ELSE faults + 1
    /\ \E r \in {UpdateBooking(sheet, roster, SlotDict(sheet[n]), option,
                               SurgeryEmail(option), fault)} :
          /\ sheet' = r.sheet
          /\ last' = CallReport("book", Find(sheet, sheet[n].unique_code), fault,
                                option, SurgeryEmail(option), TRUE, r)
    /\ prov' = RowNumbers(sheet)
    /\ UNCHANGED <<pend, roster>>

CancelNow(n, fault) ==
    /\ \E tod \in Tods : Offered(sheet[n], tod)
    /\ IsBooked(sheet[n])
    /\ fault # "none" => faults < MaxFaults
    /\ faults' = IF fault = "none" THEN faults ELSE faults + 1
    /\ \E r \in {CancelBooking(sheet, roster, SlotDict(sheet[n]), fault)} :
          /\ sheet' = r.sheet
          /\ last' = CallReport("cancel", Find(sheet, sheet[n].unique_code), fault,
                                "", "", r.ok, r)
    /\ prov' = RowNumbers(sheet)
    /\ UNCHANGED <<pend, roster>>

\* ---------------------------------------------------------- specifications
\* Spec: the booking and cancelling sessions interleaved with an admin who
\* per submission assigns pharmacist A to one morning slot of the near date
\* or removes the assignment.
NearKeys == {k \in Keys : k[1] = NearDay /\ k[3] = "am"}

Next ==
    \/ \E s \in Sessions, n \in 1..Len(sheet) : OpenDialog(s, n)
    \/ \E s \in Sessions : CloseDialog(s)
    \/ \E s \in Sessions, option \in Surgeries \cup {"Add New Surgery"},
          ms \in {"", "N"}, me \in {"", "n@"}, fault \in Faults :
            SubmitBooking(s, option, ms, me, fault)
    \/ \E s \in Sessions, n \in 1..Len(sheet) : ClickCancel(s, n)
    \/ \E s \in Sessions, fault \in Faults \ {"ics"} : RunCancel(s, fault)
    \/ \E D \in Desireds(sheet, roster, NearKeys, {"None", "A"}, 1) :
            UpdateAvailability(MaxWeeks, 0, D, 0, 0)

Spec == Init /\ [][Next]_vars

\* The slider values that make a difference for D: a value that hides only
\* unchanged selectboxes gives the run of the largest value.
SlidersFor(df, D) ==
    {w \in Weeks : \/ w = MaxWeeks
                   \/ \E k \in Keys : /\ k[1] \notin DatesToShow(w)
                                      /\ D[k] # SlotInfo(df, k).pharmacist_name}

\* SpecAdmin: the admin's submissions with every fault of the worksheet,
\* and bookings and cancellations served without interleaving.
NextAdmin ==
    \/ \E n \in 1..Len(sheet) : BookNow(n, "S1", "none")
    \/ \E n \in 1..Len(sheet) : CancelNow(n, "none")
    \/ \E D \in Desireds(sheet, roster, Keys, PharmacistNames(AllPharmacists), MaxEdits) :
         \E num_weeks \in SlidersFor(sheet, D) :
           \E plain \in {Reconcile(sheet, CurrentAvailability(sheet), D, num_weeks, 0, 0, 0)} :
             \E ffail \in 0..plain.finds, wfail \in 0..plain.writes :
                UpdateAvailability(num_weeks, 0, D, ffail, wfail)

SpecAdmin == Init /\ [][NextAdmin]_vars

\* SpecLegacy: Spec started on a worksheet that holds a row whose
\* pharmacist_name cell reads 'None', the value show_admin_panel takes for
\* "nobody assigned".
LegacyRow == NewRow(UniqueCode(NearDay, 0, "am", 0), NearDay, "am", "None", 0)

InitLegacy ==
    /\ sheet = <<LegacyRow>>
    /\ prov = <<1>>
    /\ pend = [s \in Sessions |-> NoPend]
    /\ roster = AllPharmacists
    /\ faults = 0
    /\ last = NoLast

SpecLegacy == InitLegacy /\ [][Next]_vars

\* SpecClock: the admin submits the form at any second of the day, changing
\* one selectbox at a time; bookings and cancellations in between.
NextClock ==
    \/ \E n \in 1..Len(sheet) : BookNow(n, "S1", "none")
    \/ \E n \in 1..Len(sheet) : CancelNow(n, "none")
    \/ \E tod \in Tods :
         \E D \in Desireds(sheet, roster, Keys, PharmacistNames(AllPharmacists), 1) :
            UpdateAvailability(MaxWeeks, tod, D, 0, 0)

SpecClock == Init /\ [][NextClock]_vars

\* SpecWeekend: Spec started on a worksheet that holds a row dated on a
\* Saturday.
WeekendRow == NewRow(UniqueCode(WeekendDay, 0, "am", 0), WeekendDay, "am", "A", 0)

InitWeekend ==
    /\ sheet = <<WeekendRow>>
    /\ prov = <<1>>
    /\ pend = [s \in Sessions |-> NoPend]
    /\ roster = AllPharmacists
    /\ faults = 0
    /\ last = NoLast

SpecWeekend == InitWeekend /\ [][Next]_vars

\* -------------------------------------------------------------- properties
\* Row i of the worksheet before a handler is still there after it, with
\* the pharmacist_name, surgery, email and unique_code it had.
Kept(i) ==
    \E j \in 1..Len(sheet') :
        /\ prov'[j] = i
        /\ sheet'[j].pharmacist_name = sheet[i].pharmacist_name
        /\ sheet'[j].surgery = sheet[i].surgery
        /\ sheet'[j].email = sheet[i].email
        /\ sheet'[j].unique_code = sheet[i].unique_code

\* C1: one run of 'Update Availability' neither deletes a row that is
\* booked when the form is submitted nor changes its pharmacist_name,
\* surgery, email or unique_code.
C1_BookedRowsKept ==
    [][last'.op = "reconcile" =>
          \A i \in 1..Len(sheet) : IsBooked(sheet[i]) => Kept(i)]_vars

\* C2: in every reachable state, also after a handler that stopped at a
\* failed write, a booked row has a surgery and an email and an unbooked
\* row has neither.
C2_BookedIffRequester ==
    \A n \in 1..Len(sheet) :
        /\ IsBooked(sheet[n]) => sheet[n].surgery # "" /\ sheet[n].email # ""
        /\ ~IsBooked(sheet[n]) => sheet[n].surgery = "" /\ sheet[n].email = ""

\* C3: no reachable state has a booked row whose pharmacist_name is 'None'.
C3_UnassignedNeverBooked ==
    \A n \in 1..Len(sheet) : sheet[n].pharmacist_name = "None" => ~IsBooked(sheet[n])

\* Session s serves the call its dialog or button was waiting for.
Serves(s, kind) ==
    /\ pend[s].kind = kind
    /\ pend'[s] = NoPend
    /\ last'.op = kind

\* The row sheet.find returns for the slot session s holds.
CellOf(s) == Find(sheet, pend[s].slot.unique_code)

\* C4: 'Submit Booking' on a slot whose row is booked by then fails and
\* leaves the row's surgery and email as they were.
C4_NoDoubleBooking ==
    [][\A s \in Sessions :
          (Serves(s, "book") /\ last'.fault = "none"
             /\ CellOf(s) # 0 /\ IsBooked(sheet[CellOf(s)]))
          => (/\ ~last'.ok
              /\ sheet'[CellOf(s)].surgery = sheet[CellOf(s)].surgery
              /\ sheet'[CellOf(s)].email = sheet[CellOf(s)].email)]_vars

\* C5: cancel_booking on a slot whose row is not booked by then fails, writes
\* no cell and sends no mail.
C5_CancelNeedsBooked ==
    [][\A s \in Sessions :
          (Serves(s, "cancel") /\ last'.fault = "none"
             /\ CellOf(s) # 0 /\ ~IsBooked(sheet[CellOf(s)]))
          => (/\ ~last'.ok
              /\ last'.writes = 0
              /\ last'.mails = {})]_vars

\* C6: on a row that is unbooked and found by its own code, update_booking
\* followed by cancel_booking, both succeeding, leaves the row unbooked with
\* empty surgery and email and every other cell as it was before the booking.
C6_BookCancelRoundTrip ==
    \A n \in 1..Len(sheet), option \in Surgeries :
        LET slot == SlotDict(sheet[n])
            b == UpdateBooking(sheet, roster, slot, option, SurgeryEmail(option), "none")
            c == CancelBooking(b.sheet, roster, SlotDict(b.sheet[n]), "none")
        IN (~IsBooked(sheet[n]) /\ Find(sheet, slot.unique_code) = n /\ ~b.err /\ c.ok)
           => /\ IsBooked(b.sheet[n])
              /\ c.sheet[n] = [sheet[n] EXCEPT !.booked = "FALSE", !.surgery = "",
                                               !.email = ""]

\* A cancellation has just succeeded on a row that a booking had filled.
C6_Witness ==
    /\ last.op = "cancel" /\ last.ok /\ last.writes = 3 /\ last.cell # 0
    /\ "e1" \in last.mails
    /\ ~IsBooked(sheet[last.cell])
    /\ sheet[last.cell].pharmacist_name \in roster

\* C7: when 'Update Availability' ran to completion, the same submission
\* against the worksheet read again appends, updates and deletes nothing.
C7_RerunIdle ==
    (last.op = "reconcile" /\ last.ok) => last.rerun = 0

\* C8: 'Submit Booking' with an empty surgery name or an empty email is
\* turned down: no cell is written, no mail is sent, update_booking is not
\* called.
C8_EmptyInputRejected ==
    [][(last'.op \in {"book", "book_rejected"}
          /\ (last'.surgery = "" \/ last'.email = ""))
       => (last'.op = "book_rejected" /\ sheet' = sheet /\ last'.mails = {}
           /\ last'.writes = 0)]_vars

\* A submission with an empty field has just been turned down.
C8_Witness ==
    /\ last.op = "book_rejected"
    /\ last.surgery = "" \/ last.email = ""
    /\ \E s \in Sessions : pend[s].kind = "book"

\* C9: 'Submit Booking' for a slot whose unique_code is in no row writes
\* nothing, sends no mail and is reported as a failure, not as a saved
\* booking.
C9_MissingSlotFails ==
    (last.op = "book" /\ last.fault = "none" /\ last.cell = 0)
    => (last.writes = 0 /\ last.mails = {} /\ last.err /\ ~last.ok)

\* C10: a row keeps its unique_code through every handler, and a row that
\* 'Update Availability' keeps differs from what it was in pharmacist_name
\* at most.
C10_CodeStable ==
    [][\A j \in 1..Len(sheet') :
          prov'[j] # 0 =>
            /\ sheet'[j].unique_code = sheet[prov'[j]].unique_code
            /\ last'.op = "reconcile" =>
                  sheet'[j] = [sheet[prov'[j]] EXCEPT
                                  !.pharmacist_name = sheet'[j].pharmacist_name]]_vars

\* 'Update Availability' has just rewritten the pharmacist of a row that
\* was in the worksheet before.
C10_Witness ==
    /\ last.op = "reconcile"
    /\ "update" \in last.kinds
    /\ \E j \in 1..Len(sheet) : prov[j] # 0

\* C11: no two rows of the worksheet carry the same unique_code.
C11_CodesDistinct ==
    \A i, j \in 1..Len(sheet) :
        i # j => sheet[i].unique_code # sheet[j].unique_code

\* C12: the unique_code of a row depends on its Date, am_pm and slot_index
\* only: it is the code computed from the calendar date, whatever the time
\* of day of the run that created the row.
C12_CodeFromKeyOnly ==
    \A n \in 1..Len(sheet) :
        sheet[n].unique_code =
            UniqueCode(sheet[n].Date, 0, sheet[n].am_pm, sheet[n].slot_index)

\* C13: on the same worksheet and with the same selection, two runs of
\* 'Update Availability' issue the same sequence of mutations: operation,
\* key and unique_code of the row, in the same order.
C13_SameRunsSameMutations ==
    \A D \in Desireds(sheet, roster, Keys, PharmacistNames(AllPharmacists), 1) :
        \A t1, t2 \in Tods :
            Reconcile(sheet, CurrentAvailability(sheet), D, MaxWeeks, t1, 0, 0).muts
            = Reconcile(sheet, CurrentAvailability(sheet), D, MaxWeeks, t2, 0, 0).muts

\* Key a comes before key b in the order date, then column, then 'am'
\* before 'pm'.
KeyBefore(a, b) ==
    \/ a[1] < b[1]
    \/ a[1] = b[1] /\ a[2] < b[2]
    \/ a[1] = b[1] /\ a[2] = b[2] /\ a[3] = "am" /\ b[3] = "pm"

\* C14: the mutations of one run of 'Update Availability' are issued in the
\* order of their keys: date ascending, then column ascending, then 'am'
\* before 'pm'.
C14_MutationsInKeyOrder ==
    \A i, j \in 1..Len(last.muts) :
        i < j => KeyBefore(last.muts[i].key, last.muts[j].key)

\* A run has just issued two mutations.
C14_Witness ==
    /\ last.op = "reconcile"
    /\ Len(last.muts) >= 2

\* The mutations of the log ms that were issued for key k.
MutsOf(ms, k) == SelectSeq(ms, LAMBDA m : m.key = k)

\* No row of the worksheet df has key k.
NoRowAt(df, k) == \A n \in 1..Len(df) : RowKey(df[n]) # k

Gone == {i \in 1..Len(sheet) : \A j \in 1..Len(sheet') : prov'[j] # i}

\* The deletions a submission asks for: the asked keys set to 'None'.
AskedDeletions(asked) == {a \in asked : a[2] = "None"}

Hidden(n, w) == sheet[n].Date > DaysPerWeek * w

\* C17 as claimed: a run in which no worksheet call raises deletes every
\* unbooked weekday row whose date lies outside the displayed weeks.
C17_HiddenRowsDeleted ==
    [][(last'.op = "reconcile" /\ last'.wkey = NoKey /\ last'.fkey = NoKey) =>
          \A i \in 1..Len(sheet) :
              (Hidden(i, last'.weeks) /\ ~IsBooked(sheet[i])
                 /\ ~IsWeekend(sheet[i].Date))
              => i \in Gone]_vars

\* C17, amended: a run mutates displayed keys of columns 0 and 1 only, and
\* leaves every row whose date lies outside the displayed weeks in the
\* worksheet, cell for cell.
C17_HiddenRowsUntouched ==
    [][last'.op = "reconcile" =>
          /\ \A j \in 1..Len(last'.muts) :
                /\ last'.muts[j].key[1] <= DaysPerWeek * last'.weeks
                /\ last'.muts[j].key[2] \in 0..(NumCols - 1)
          /\ \A i \in 1..Len(sheet) :
                Hidden(i, last'.weeks) =>
                   \E j \in 1..Len(sheet') : prov'[j] = i /\ sheet'[j] = sheet[i]]_vars

\* A run of a form that hides an unbooked weekday row has just changed
\* the worksheet, and the hidden row is there.
C17_Witness ==
    /\ last.op = "reconcile" /\ last.ok
    /\ Len(last.muts) >= 1
    /\ \E n \in 1..Len(sheet) :
          /\ Hidden(n, last.weeks) /\ prov[n] # 0
          /\ ~IsBooked(sheet[n]) /\ ~IsWeekend(sheet[n].Date)

\* The date d days after today is a Saturday or a Sunday.
OnWeekend(d) == (TodayWeekday + d) % DaysPerWeek \in {5, 6}

\* C18: no run of 'Update Availability' appends, updates or deletes a row
\* dated on a Saturday or Sunday, and no dialog or Cancel button is ever
\* opened on such a row.
C18_WeekendRowsUntouched ==
    [][/\ last'.op = "reconcile" =>
            /\ \A j \in 1..Len(last'.muts) : ~OnWeekend(last'.muts[j].key[1])
            /\ \A j \in 1..Len(sheet') :
                  prov'[j] = 0 => ~OnWeekend(sheet'[j].Date)
            /\ \A i \in 1..Len(sheet) :
                  OnWeekend(sheet[i].Date) =>
                     \E j \in 1..Len(sheet') : prov'[j] = i /\ sheet'[j] = sheet[i]
       /\ \A s \in Sessions :
            pend'[s] # NoPend => ~OnWeekend(pend'[s].slot.Date)]_vars

\* A run has just changed the worksheet while it holds a Saturday row and
\* a session has a dialog or Cancel button open.
C18_Witness ==
    /\ last.op = "reconcile" /\ Len(last.muts) >= 1
    /\ \E n \in 1..Len(sheet) : OnWeekend(sheet[n].Date) /\ prov[n] # 0
    /\ \E s \in Sessions : pend[s] # NoPend

\* The change the submission asks for at the key where sheet.find raised,
\* when it asks for a pharmacist there.
FallbackAsked(asked, k) == {a \in asked : a[1] = k /\ a[2] # "None"}

\* C19: in a run in which sheet.find raises for a key whose pharmacist is
\* to change and no worksheet write raises, a row with the slot's
\* unique_code, the selected pharmacist and booked FALSE is appended, the
\* warning is shown, and every other asked key still gets its mutation.
C19_LookupFailureFallsBack ==
    [][(last'.op = "reconcile" /\ last'.fkey # NoKey /\ last'.wkey = NoKey) =>
          \A a \in FallbackAsked(last'.asked, last'.fkey) :
              LET ms == MutsOf(last'.muts, a[1])
              IN /\ last'.warned
                 /\ last'.ok
                 /\ Len(ms) = 1
                 /\ ms[1].op = "append"
                 /\ ms[1].code = SlotInfo(sheet, a[1]).unique_code
                 /\ \E j \in 1..Len(sheet') :
                       /\ prov'[j] = 0
                       /\ sheet'[j].unique_code = ms[1].code
                       /\ sheet'[j].pharmacist_name = a[2]
                       /\ sheet'[j].booked = "FALSE"
                       /\ RowKey(sheet'[j]) = a[1]
                 /\ \A b \in last'.asked : Len(MutsOf(last'.muts, b[1])) = 1]_vars

\* sheet.find has just raised for the first of two asked keys, the
\* fallback row was appended and the second key was served after it.
C19_Witness ==
    /\ last.op = "reconcile" /\ last.warned /\ last.wkey = NoKey
    /\ FallbackAsked(last.asked, last.fkey) # {}
    /\ Len(last.muts) = 2
    /\ last.muts[1].key = last.fkey
    /\ last.muts[1].op = "append"

\* C20: when a worksheet write raises for one key of a run, every asked
\* key that comes later in the run still gets its mutation.
C20_BatchContinuesAfterFailure ==
    (last.op = "reconcile" /\ last.wkey # NoKey) =>
        \A a \in last.asked :
            KeyBefore(last.wkey, a[1]) => Len(MutsOf(last.muts, a[1])) >= 1

\* SpecRetry: the admin changes up to MaxEdits selectboxes of the near date
\* per submission, any one sheet.find or worksheet write of the run raising;
\* bookings and cancellations in between.
RetryKeys == {k \in Keys : k[1] = NearDay}

NextRetry ==
    \/ \E n \in 1..Len(sheet) : BookNow(n, "S1", "none")
    \/ \E n \in 1..Len(sheet) : CancelNow(n, "none")
    \/ \E D \in Desireds(sheet, roster, RetryKeys, PharmacistNames(AllPharmacists), MaxEdits) :
         \E ffail \in 0..MaxEdits, wfail \in 0..MaxEdits :
            UpdateAvailability(MaxWeeks, 0, D, ffail, wfail)

SpecRetry == Init /\ [][NextRetry]_vars

\* What the worksheet sh holds, row by row: key, pharmacist and the three
\* booking cells.
Holdings(sh) ==
    {<<RowKey(sh[n]), sh[n].pharmacist_name, sh[n].booked, sh[n].surgery,
       sh[n].email>> : n \in 1..Len(sh)}

\* The number of rows of sh with key k.
RowsAt(sh, k) == Cardinality({n \in 1..Len(sh) : RowKey(sh[n]) = k})

\* C21: for every worksheet, every selection and every write of the run
\* that raises, reading the worksheet again and running 'Update
\* Availability' with the same selection to its end leaves the keys,
\* pharmacists and booking cells a run without failure leaves, and no key
\* has more rows than that run gives it.
C21_RetryReachesCleanResult ==
    \A D \in Desireds(sheet, roster, RetryKeys, PharmacistNames(AllPharmacists), MaxEdits) :
        LET cur == CurrentAvailability(sheet)
            clean == Reconcile(sheet, cur, D, MaxWeeks, 0, 0, 0)
        IN \A wfail \in 1..clean.writes :
              LET part == Reconcile(sheet, cur, D, MaxWeeks, 0, 0, wfail)
                  retry == Reconcile(part.sheet, CurrentAvailability(part.sheet),
                                     D, MaxWeeks, 0, 0, 0)
              IN /\ part.aborted
                 /\ ~retry.aborted
                 /\ Holdings(retry.sheet) = Holdings(clean.sheet)
                 /\ \A k \in Keys : RowsAt(retry.sheet, k) <= RowsAt(clean.sheet, k)

\* SpecNotify: bookings and cancellations whose notification may fail, on a
\* roster that pharmacists leave and join, and an admin who submits the
\* form with at most one selectbox of the near morning changed.
NextNotify ==
    \/ \E n \in 1..Len(sheet), fault \in {"none"} \cup NotifyFaults :
          BookNow(n, "S1", fault)
    \/ \E n \in 1..Len(sheet), fault \in {"none", "mail"} : CancelNow(n, fault)
    \/ \E p \in AllPharmacists : DeletePharmacist(p)
    \/ \E p \in AllPharmacists : AddPharmacist(p)
    \/ \E D \in Desireds(sheet, roster, NearKeys, PharmacistNames(AllPharmacists), 1) :
          UpdateAvailability(MaxWeeks, 0, D, 0, 0)

SpecNotify == Init /\ [][NextNotify]_vars

\* C22: when update_booking or cancel_booking has written its three cells
\* and the notification then fails (pharmacist not in the roster, calendar
\* file not generated, mail not sent), the row stays as written: booked
\* with the surgery and email after a booking, unbooked with empty surgery
\* and email after a cancellation.
C22_NotifyFailureKeepsWrite ==
    [][(last'.op \in {"book", "cancel"} /\ last'.cell # 0
          /\ last'.writes = 3 /\ last'.err) =>
          LET row == sheet'[last'.cell]
          IN /\ last'.op = "book" =>
                  /\ row.booked = "TRUE"
                  /\ row.surgery = last'.surgery
                  /\ row.email = last'.email
             /\ last'.op = "cancel" =>
                  /\ row.booked = "FALSE"
                  /\ row.surgery = ""
                  /\ row.email = ""
             /\ Len(sheet') = Len(sheet)]_vars

\* A booking has just written its cells for a pharmacist who has left the
\* roster, so that no mail was sent, and the row is booked.
C22_Witness ==
    /\ last.op = "book" /\ last.cell # 0
    /\ last.writes = 3 /\ last.err /\ last.mails = {}
    /\ sheet[last.cell].pharmacist_name \notin roster
    /\ IsBooked(sheet[last.cell])

\* C23: every update_booking that has set a row's booked cell to TRUE has
\* called send_resend_email for the surgery's address and for the address
\* of the row's pharmacist.
C23_BookNotifiesBoth ==
    (last.op = "book" /\ last.cell # 0 /\ last.writes >= 1) =>
        /\ last.email \in last.mails
        /\ \E p \in AllPharmacists : PharmacistEmail(p) \in last.mails

\* C24: cancel_booking served for a slot whose row is booked changes, in the
\* first row that carries the slot's unique_code, the booked, surgery and
\* email cells only (to FALSE and empty when no write raises); the row stays
\* where it is with its other cells, and every other row is unchanged.
C24_CancelTouchesThreeCells ==
    [][\A s \in Sessions :
          (Serves(s, "cancel") /\ CellOf(s) # 0 /\ IsBooked(sheet[CellOf(s)])) =>
             LET n == CellOf(s)
             IN /\ Len(sheet') = Len(sheet)
                /\ sheet[n].unique_code = pend[s].slot.unique_code
                /\ \A m \in 1..Len(sheet) : m # n => sheet'[m] = sheet[m]
                /\ sheet'[n].unique_code = sheet[n].unique_code
                /\ sheet'[n].pharmacist_name = sheet[n].pharmacist_name
                /\ sheet'[n].Date = sheet[n].Date
                /\ sheet'[n].am_pm = sheet[n].am_pm
                /\ sheet'[n].slot_index = sheet[n].slot_index
                /\ last'.fault = "none" =>
                      /\ sheet'[n].booked = "FALSE"
                      /\ sheet'[n].surgery = ""
                      /\ sheet'[n].email = ""]_vars

\* A cancellation has just cleared the booking of one of two rows and the
\* other row is booked.
C24_Witness ==
    /\ last.op = "cancel" /\ last.ok /\ last.fault = "none" /\ last.cell # 0
    /\ Len(sheet) = 2
    /\ ~IsBooked(sheet[last.cell])
    /\ sheet[last.cell].pharmacist_name = "A"
    /\ \E m \in 1..Len(sheet) : m # last.cell /\ IsBooked(sheet[m])

\* C25: the codes generated for two different triples of date, shift and
\* column differ, at whatever seconds of the day the two runs start; and
\* in every worksheet two rows with different triples carry different
\* codes.
C25_DistinctSlotsDistinctCodes ==
    /\ \A a, b \in AllKeys : \A t1, t2 \in Tods :
          a # b => UniqueCode(a[1], t1, a[3], a[2]) # UniqueCode(b[1], t2, b[3], b[2])
    /\ \A i, j \in 1..Len(sheet) :
          RowKey(sheet[i]) # RowKey(sheet[j])
             => sheet[i].unique_code # sheet[j].unique_code

\* The worksheet holds two rows of different slots whose codes were
\* generated by runs started at different seconds of the day.
C25_Witness ==
    \E i, j \in 1..Len(sheet) :
        /\ RowKey(sheet[i]) # RowKey(sheet[j])
        /\ sheet[i].unique_code[1] % SecondsPerDay
              # sheet[j].unique_code[1] % SecondsPerDay

\* The submission of an admin who touches no selectbox: every selectbox
\* holds the value the form shows for it.
DefaultSelection(df, ros) ==
    [k \in Keys |-> IF IsWeekend(k[1]) THEN "None"
                    ELSE DefaultPharmacist(SlotInfo(df, k), ros)]

\* C26: on every worksheet and roster, 'Update Availability' submitted with
\* every selectbox at the value the form shows appends, updates and deletes
\* nothing, whatever the number of weeks shown.
C26_DefaultsSubmitIdle ==
    \A w \in Weeks :
        Reconcile(sheet, CurrentAvailability(sheet), DefaultSelection(sheet, roster),
                  w, 0, 0, 0).muts = <<>>

\* ------------------------------------------- handlers step by step
\* The worksheet is read and written through separate calls to the Sheets
\* service, so another session's handler can run between two calls of one
\* handler.  The actions below split the handlers where that matters: the
\* admin's script run between reading df and the submit loop, and
\* update_booking and cancel_booking between sheet.find and the update_cell
\* calls.

\* display_calendar reads df and show_admin_panel builds
\* current_availability from it; D are the selectbox values the browser
\* sent with the 'Update Availability' click.
ReadSnapshot(s, D) ==
    /\ pend[s] = NoPend
    /\ pend' = [pend EXCEPT ![s] = [kind |-> "admin",
                                    cur |-> CurrentAvailability(sheet), D |-> D]]
    /\ last' = Report("render", 0, FALSE, FALSE, 0, {})
    /\ prov' = RowNumbers(sheet)
    /\ UNCHANGED <<sheet, roster, faults>>

\* The submit loop of the same script run, on the worksheet as it is by now.
RunSubmitLoop(s) ==
    /\ pend[s].kind = "admin"
    /\ \E st \in {Reconcile(sheet, pend[s].cur, pend[s].D, MaxWeeks, 0, 0, 0)} :
          /\ Len(st.sheet) <= MaxRows
          /\ sheet' = st.sheet
          /\ prov' = st.prov
          /\ last' = [NoLast EXCEPT !.op = "reconcile", !.ok = TRUE,
                                    !.warned = st.warned, !.writes = st.writes,
                                    !.kinds = {st.muts[j].op : j \in 1..Len(st.muts)},
                                    !.asked = Asked(pend[s].cur, pend[s].D, MaxWeeks),
                                    !.weeks = MaxWeeks, !.muts = st.muts]
    /\ pend' = [pend EXCEPT ![s] = NoPend]
    /\ UNCHANGED <<roster, faults>>

\* update_booking / cancel_booking up to 'if cell:': sheet.find has returned
\* the cell, or None and the function ends with its error message.
LookUp(s) ==
    /\ pend[s].kind \in {"book", "cancel"}
    /\ LET cell == Find(sheet, pend[s].slot.unique_code)
       IN /\ pend' = [pend EXCEPT ![s] =
                        IF cell = 0 THEN NoPend
                        ELSE [kind |-> "found", op |-> pend[s].kind,
                              slot |-> pend[s].slot, cell |-> cell]]
          /\ last' = IF cell = 0 THEN Report(pend[s].kind, 0, FALSE, TRUE, 0, {})
                     ELSE Report("render", 0, FALSE, FALSE, 0, {})
    /\ prov' = RowNumbers(sheet)
    /\ UNCHANGED <<sheet, roster, faults>>

\* The three update_cell(cell.row, ...) calls of update_booking (with
\* surgery S1) or cancel_booking.  A row number below the last row of the
\* worksheet addresses an empty grid row, which is no slot and is left out
\* of sheet.
WriteCells(s) ==
    /\ pend[s].kind = "found"
    /\ LET n == pend[s].cell
           cells == IF pend[s].op = "book"
                    THEN BookCells(sheet[n], "S1", SurgeryEmail("S1"), "none")
                    ELSE CancelCells(sheet[n], "none")
       IN /\ sheet' = IF n <= Len(sheet) THEN [sheet EXCEPT ![n] = cells] ELSE sheet
          /\ last' = [Report(pend[s].op, n, TRUE, FALSE, 3, {})
                         EXCEPT !.surgery = IF pend[s].op = "book" THEN "S1" ELSE "",
                                !.email = IF pend[s].op = "book" THEN SurgeryEmail("S1") ELSE ""]
    /\ pend' = [pend EXCEPT ![s] = NoPend]
    /\ prov' = RowNumbers(sheet)
    /\ UNCHANGED <<roster, faults>>

\* SpecRace: the sessions' handlers run call by call.
NextRace ==
    \/ \E s \in Sessions, n \in 1..Len(sheet) : OpenDialog(s, n)
    \/ \E s \in Sessions, n \in 1..Len(sheet) : ClickCancel(s, n)
    \/ \E s \in Sessions : LookUp(s)
    \/ \E s \in Sessions : WriteCells(s)
    \/ \E s \in Sessions :
         \E D \in Desireds(sheet, roster, NearKeys, PharmacistNames(AllPharmacists), 1) :
            ReadSnapshot(s, D)
    \/ \E s \in Sessions : RunSubmitLoop(s)

SpecRace == Init /\ [][NextRace]_vars

\* C27: when the submit loop of 'Update Availability' runs, every row that
\* is booked in the worksheet at that moment, also one booked after the
\* run read its snapshot, stays in the worksheet with its pharmacist_name.
C27_LiveBookingSurvivesSubmit ==
    [][\A s \in Sessions :
          (pend[s].kind = "admin" /\ pend'[s] = NoPend) =>
             \A i \in 1..Len(sheet) :
                 IsBooked(sheet[i]) =>
                    \E j \in 1..Len(sheet') :
                        /\ prov'[j] = i
                        /\ sheet'[j].pharmacist_name = sheet[i].pharmacist_name]_vars

\* C28: the update_cell calls of update_booking and cancel_booking change
\* no row whose unique_code differs from the code of the slot they were
\* called for, also when rows were deleted after sheet.find returned.
C28_WritesOnlyRequestedCode ==
    [][\A s \in Sessions :
          (pend[s].kind = "found" /\ pend'[s] = NoPend) =>
             \A n \in 1..Len(sheet) :
                 sheet[n].unique_code # pend[s].slot.unique_code
                    => sheet'[n] = sheet[n]]_vars

\* ------------------------------------------- display_calendar: one script run
\* st.secrets["admin_password"], and the entries of the 'Admin Options'
\* radio ('Manage Surgeries' takes the same branches as 'Manage
\* Pharmacists').
AdminPassword == "secret"
Passwords == {"", "wrong", AdminPassword}
AdminTabs == {"Manage Availability", "View Future Requests", "Manage Pharmacists",
              "Surgery Session Plots"}

\* What a session keeps from one script run to the next: session_state.view
\* and the '(Cancel)' buttons on the page in the browser.
Page(view, cancels) == [kind |-> "page", view |-> view, cancels |-> cancels]

\* session_state.view after 'if password == st.secrets[...]': show_admin_panel
\* assigns it from the radio, no other code assigns it.
ViewAfter(view, password, admin_tab) ==
    IF password # AdminPassword THEN view
    ELSE IF admin_tab = "Surgery Session Plots" THEN "plot"
    ELSE IF admin_tab = "View Future Requests" THEN "future_requests"
    ELSE "calendar"

\* An unbook mode that follows the toggle without a password.
UnbookMode_ToggleOnly(password, admin_tab, toggle) == toggle

\* unbook_mode of the script run: the parameter's default False unless
\* show_admin_panel runs and returns the toggle of 'Manage Availability'.
UnbookMode(password, admin_tab, toggle) ==
    password = AdminPassword /\ admin_tab = "Manage Availability" /\ toggle

\* The '(Cancel)' buttons the run renders, each by its key
\* f"{unique_code}_{pharmacist_name}".
CancelButtons(df, unbook_mode, view, tod) ==
    IF unbook_mode /\ view = "calendar"
    THEN {<<df[n].unique_code, df[n].pharmacist_name>> :
             n \in {m \in 1..Len(df) : Offered(df[m], tod) /\ IsBooked(df[m])}}
    ELSE {}

\* One script run of display_calendar for session s: the sidebar widgets
\* hold password, admin_tab and toggle, and click is the '(Cancel)' button
\* pressed on the page the browser shows (NoKey: none).  The button's
\* handler runs when this run renders the button again.
ScriptRun(s, password, admin_tab, toggle, click, tod) ==
    /\ pend[s].kind = "page"
    /\ click = NoKey \/ click \in pend[s].cancels
    /\ LET view == ViewAfter(pend[s].view, password, admin_tab)
           unbook_mode == UnbookMode(password, admin_tab, toggle)
           buttons == CancelButtons(sheet, unbook_mode, view, tod)
           fires == click \in buttons
           n == CHOOSE m \in 1..Len(sheet) :
                   /\ <<sheet[m].unique_code, sheet[m].pharmacist_name>> = click
                   /\ Offered(sheet[m], tod) /\ IsBooked(sheet[m])
           r == CancelBooking(sheet, roster, SlotDict(sheet[n]), "none")
           rep == IF fires
                  THEN CallReport("cancel", Find(sheet, sheet[n].unique_code), "none",
                                  "", "", r.ok, r)
                  ELSE Report("run", 0, FALSE, FALSE, 0, {})
       IN /\ sheet' = IF fires THEN r.sheet ELSE sheet
          /\ last' = [rep EXCEPT !.password = password, !.unbook = unbook_mode,
                                 !.view = view, !.offers = buttons]
          /\ pend' = [pend EXCEPT ![s] = Page(view, IF fires THEN {} ELSE buttons)]
    /\ prov' = RowNumbers(sheet)
    /\ UNCHANGED <<roster, faults>>

InitPages ==
    /\ sheet = <<>>
    /\ prov = <<>>
    /\ pend = [s \in Sessions |-> Page("calendar", {})]
    /\ roster = AllPharmacists
    /\ faults = 0
    /\ last = NoLast

\* SpecPages: the sessions' script runs with any content of the sidebar
\* widgets, while slots of the near morning are created, reassigned,
\* removed and booked.
NextPages ==
    \/ \E s \in Sessions, password \in Passwords, admin_tab \in AdminTabs,
          toggle \in BOOLEAN, tod \in Tods :
         \E click \in {NoKey} \cup pend[s].cancels :
            ScriptRun(s, password, admin_tab, toggle, click, tod)
    \/ \E n \in 1..Len(sheet) : BookNow(n, "S1", "none")
    \/ \E D \in Desireds(sheet, roster, NearKeys, {"None", "A"}, 1) :
          UpdateAvailability(MaxWeeks, 0, D, 0, 0)

SpecPages == InitPages /\ [][NextPages]_vars

\* C29: a script run calls cancel_booking only when the admin password is
\* entered and unbook_mode is on, and only for a row that is booked in the
\* worksheet the run has read; a run without the admin password has
\* unbook_mode off and renders no '(Cancel)' button.
C29_CancelNeedsAdminUnbook ==
    [][/\ last'.op = "cancel" =>
            /\ last'.password = AdminPassword
            /\ last'.unbook
            /\ last'.cell # 0
            /\ IsBooked(sheet[last'.cell])
       /\ (last'.op \in {"run", "cancel"} /\ last'.password # AdminPassword) =>
            /\ ~last'.unbook
            /\ last'.offers = {}
            /\ \A s \in Sessions : pend'[s] # pend[s] => pend'[s].cancels = {}]_vars

\* A script run with the admin password has just cancelled a booking
\* through a '(Cancel)' button.
C29_Witness ==
    /\ last.op = "cancel" /\ last.ok /\ last.cell # 0
    /\ last.password = AdminPassword /\ last.unbook
    /\ ~IsBooked(sheet[last.cell])

\* C30: every script run in which no admin password is entered shows the
\* booking calendar.
C30_NoPasswordShowsCalendar ==
    (last.op \in {"run", "cancel"} /\ last.password = "") => last.view = "calendar"

====
